---- MODULE Spec2Model ----
(***************************************************************************)
(* BOSSEnsemble and BOSSIndividual                                         *)
(* (sktime/contrib/dictionary_based/boss_ensemble.py) as state machines:   *)
(* construction, fit (randomised mode and grid-search mode with its        *)
(* retention policy), predict_proba and predict of the ensemble; fit,      *)
(* predict and train_predict of one Member.                                *)
(*                                                                         *)
(* Specifications.                                                         *)
(*   Spec         one fit on a new object, a grid cell as one step         *)
(*   SpecPredict  one fit, then one call of predict_proba or predict       *)
(*   SpecMember   one Member: fit, then one nearest-neighbour search,      *)
(*                iteration by iteration                                   *)
(*   SpecCell     a grid-search fit with every cell taken one word length  *)
(*                at a time, the calls on each SFA object logged           *)
(*   SpecRefit    a fit, then a second fit on the same object              *)
(*   SpecSeeded   two new objects fitted in randomised mode one after the  *)
(*                other, the random module followed draw by draw           *)
(*                                                                         *)
(* The SFA transform and boss_distance live outside this file.  In the     *)
(* ensemble specifications what they decide (how many training instances   *)
(* a Member's leave-one-out vote gets right, which training bag is nearest *)
(* to a test bag) is drawn nondeterministically from every value the       *)
(* calling code can receive.  In SpecMember a bag is a histogram over one  *)
(* word and boss_distance follows its contract: the distance when it is    *)
(* below the cutoff, any value from the cutoff up otherwise.               *)
(*                                                                         *)
(* The random module.  RandomisedIter takes the three numbers of an        *)
(* iteration to be any numbers the generator can give and does not follow  *)
(* the generator; RandomisedDraw, used by SpecSeeded, follows it (rng,     *)
(* stream).  Both run the same loop body, RandomisedBody.                  *)
(*                                                                         *)
(* Numbers.  An accuracy is the Python quotient correct / num_insts; it is *)
(* kept as the exact fraction <<correct, num_insts>>, the sentinel -1 as   *)
(* <<-1, 1>>, and the threshold as a fraction too, so that every           *)
(* comparison of the code is an integer cross-multiplication.  A class     *)
(* label is a number kept in tenths (25 is the label 2.5), so that the     *)
(* store of a label into an integer array is a conversion that can lose    *)
(* something.                                                              *)
(***************************************************************************)
EXTENDS Integers, Sequences, FiniteSets, TLC

(* ------------------------------ bounds -------------------------------- *)

MaxNumInsts == 3
MaxCap == 2
MaxTarget == 2
MaxTest == 1
MaxCount == 2
MaxSeed == 1
MaxOtherDraws == 1

(* ------------------------- program constants -------------------------- *)

DefaultEnsembleSize == 100
DefaultMaxEnsembleSize == 250
DefaultMinWindow == 10
DefaultThreshold == <<23, 25>>
DefaultWordLengths == <<16, 14, 12, 10, 8>>
DefaultNormOptions == <<TRUE, FALSE>>
SelfSeed == 0

(* --------------------------- input domains ---------------------------- *)

Labels == {10, 20, 25}
Thresholds == {<<0, 1>>, DefaultThreshold, <<1, 1>>}
MinWindows == {2, DefaultMinWindow}
GridWordLengths == {<<2, 1>>}
RandomWordLengths == {DefaultWordLengths, <<1, 0>>, <<3, 1, 0>>}
PredictLabelVectors == {<<10>>, <<10, 20>>, <<10, 25>>, <<10, 10, 20>>, <<10, 20, 25>>}
SeriesLengths == {2, 4}
MemberLabels == {10, 25}

\* training label vectors, grouped by class
LabelVectors ==
    UNION {{v \in [1..n -> Labels] : \A i \in 1..(n - 1) : v[i] <= v[i + 1]}
           : n \in 1..MaxNumInsts}

(* ------------------------------ numbers ------------------------------- *)

\* random_state = None
NoSeed == -1

\* the label -1 that a nearest-neighbour search without candidates returns
NoLabel == -10

MinusOne == <<-1, 1>>
Zero == <<0, 1>>

\* a < b on fractions with positive denominators
Less(a, b) == a[1] * b[2] < b[1] * a[2]

\* a >= b
GreaterEq(a, b) == ~Less(a, b)

\* a > b
Greater(a, b) == Less(b, a)

\* a * b
Times(a, b) == <<a[1] * b[1], a[2] * b[2]>>

\* Python int() of the float quotient a / b, b > 0: truncation toward zero
TruncDiv(a, b) == IF a >= 0 THEN a \div b ELSE -((-a) \div b)

\* the value an np.int_ array holds after a label is stored into it
IntCast(label) == TruncDiv(label, 10) * 10

RemoveAt(s, i) == [j \in 1..(Len(s) - 1) |-> IF j < i THEN s[j] ELSE s[j + 1]]

RECURSIVE SortedSeq(_)
SortedSeq(S) ==
    IF S = {} THEN <<>>
    ELSE LET m == CHOOSE x \in S : \A z \in S : x <= z
         IN <<m>> \o SortedSeq(S \ {m})

Range(s) == {s[i] : i \in 1..Len(s)}

(* ------------------------------- state -------------------------------- *)

VARIABLES
    randomised_ensemble, ensemble_size, random_state, threshold,
    max_ensemble_size, word_lengths, norm_options, min_window,
    classifiers, num_classes, classes_, class_dictionary, num_classifiers,
    series_length,
    pc, y, win_inc, max_acc, min_max_acc, cells, raised,
    step, call,
    transformed_data, class_vals, frame,
    cell_locals, transforms,
    rng, runs, stream

config == <<randomised_ensemble, ensemble_size, random_state, threshold,
            max_ensemble_size, word_lengths, norm_options, min_window>>
fitted == <<classifiers, num_classes, classes_, class_dictionary,
            num_classifiers, series_length>>
locals == <<pc, y, win_inc, max_acc, min_max_acc, cells, raised>>
individual == <<transformed_data, class_vals, frame>>
gridcell == <<cell_locals, transforms>>
process == <<rng, runs, stream>>
others == <<individual, gridcell, process>>
vars == <<config, fitted, locals, step, call, others>>

\* step: what the last pass through the retention code (lines 187-204) saw and
\* did; it is written by that code only and read by no operation
NoStep == [taken |-> FALSE]

\* call: the last call of predict_proba or predict and what it gave back
NoCall == [op |-> "none"]

\* frame: the local variables of the running call of BOSSIndividual.predict or
\* BOSSIndividual.train_predict on the Member (transformed_data, class_vals)
NoFrame == [op |-> "none"]

\* BOSSIndividual.__init__: a Member before its fit
NoMember ==
    /\ transformed_data = <<>>
    /\ class_vals = <<>>
    /\ frame = NoFrame

\* cell_locals: the local variables of the grid cell fit is working on (lines
\* 164-185); transforms: the SFA objects fit has made, in order of creation
NoCell == [open |-> FALSE]

\* rng: the generator of Python's random module, shared by everything in the
\* process: the seed it was last given and the number of draws since.
\* stream: the bits the generator gives, by seed and position, as far as
\* they have been drawn; runs: what the fits that have ended gave.
\* random.seed(a) for an integer a
Seeded(a) == [seed |-> a, pos |-> 0]

\* the fields __init__ sets that are not parameters, and the process around
\* the new object: no Member under search, no grid cell open, no run ended
NewObject ==
    /\ classifiers = <<>>
    /\ num_classes = 0
    /\ classes_ = <<>>
    /\ class_dictionary = <<>>
    /\ num_classifiers = 0
    /\ series_length = 0
    /\ pc = "constructed"
    /\ y = <<>>
    /\ win_inc = 0
    /\ max_acc = MinusOne
    /\ min_max_acc = MinusOne
    /\ cells = <<>>
    /\ raised = "none"
    /\ step = NoStep
    /\ call = NoCall
    /\ NoMember
    /\ cell_locals = NoCell
    /\ transforms = <<>>
    /\ runs = <<>>
    /\ stream = <<>>

\* BOSSEnsemble.__init__: the object after construction
Init ==
    /\ randomised_ensemble \in BOOLEAN
    /\ ensemble_size \in (IF randomised_ensemble THEN 0..MaxTarget
                          ELSE {DefaultEnsembleSize})
    /\ random_state = 0
    /\ rng = Seeded(random_state)
    /\ threshold \in (IF randomised_ensemble THEN {DefaultThreshold}
                      ELSE Thresholds)
    /\ max_ensemble_size \in (IF randomised_ensemble THEN {DefaultMaxEnsembleSize}
                              ELSE 0..MaxCap)
    /\ word_lengths \in (IF randomised_ensemble THEN RandomWordLengths
                         ELSE GridWordLengths)
    /\ norm_options = DefaultNormOptions
    /\ min_window \in MinWindows
    /\ NewObject

(* ----------------------------- fit: setup ----------------------------- *)

\* win_inc of fit: int((series_length - min_window) / (series_length / 4)),
\* raised to 1 when below 1
WinInc(s, m) ==
    LET inc == TruncDiv(4 * (s - m), s)
    IN IF inc < 1 THEN 1 ELSE inc

\* range(min_window, series_length + 1, win_inc) as a sequence
RECURSIVE WindowRange(_, _, _)
WindowRange(from, to, inc) ==
    IF from > to THEN <<>>
    ELSE <<from>> \o WindowRange(from + inc, to, inc)

\* the (normalise, win_size) pairs of the two nested for loops, in order
RECURSIVE GridCells(_, _)
GridCells(norms, windows) ==
    IF norms = <<>> THEN <<>>
    ELSE [k \in 1..Len(windows) |-> [normalise |-> Head(norms), win_size |-> windows[k]]]
         \o GridCells(Tail(norms), windows)

\* the for loop that fills class_dictionary: existing keys stay, every class
\* of this call is (re)bound to its index in classes_
UpdateClassDictionary(dict, cls) ==
    [k \in (DOMAIN dict) \cup Range(cls) |->
        IF k \in Range(cls) THEN (CHOOSE i \in 1..Len(cls) : cls[i] = k) - 1
        ELSE dict[k]]

\* fit without line 145
SeedAtFit_Keep(r) == r

\* lines 144-145: a randomised fit starts with random.seed(self.seed)
SeedAtFit(r) == IF randomised_ensemble THEN Seeded(SelfSeed) ELSE r

\* fit, from its entry to the branch on randomised_ensemble, on a training
\* set with the label vector `labels` and series of length s
FitEntry(labels, s) ==
    /\ y' = labels
    /\ series_length' = s
    /\ num_classes' = Cardinality(Range(labels))
    /\ classes_' = SortedSeq(Range(labels))
    /\ class_dictionary' = UpdateClassDictionary(class_dictionary, SortedSeq(Range(labels)))
    /\ win_inc' = WinInc(s, min_window)
    /\ rng' = SeedAtFit(rng)
    /\ IF randomised_ensemble
       THEN /\ pc' = "randomised"
            /\ cells' = <<>>
            /\ UNCHANGED <<max_acc, min_max_acc>>
       ELSE /\ pc' = "grid"
            /\ max_acc' = MinusOne
            /\ min_max_acc' = MinusOne
            /\ cells' = GridCells(norm_options,
                                  WindowRange(min_window, s, WinInc(s, min_window)))

\* the first fit of an object, on a training set whose label vector is one
\* of `vectors` and whose series have one of the `lengths`
FitBeginOn(vectors, lengths) ==
    /\ pc = "constructed"
    /\ \E labels \in vectors, s \in lengths : FitEntry(labels, s)
    /\ UNCHANGED <<config, classifiers, num_classifiers, raised, step, call,
                   individual, gridcell, runs, stream>>

FitBeginFrom(vectors) == FitBeginOn(vectors, SeriesLengths)

FitBegin == FitBeginFrom(LabelVectors)

(* ------------------------ fit: randomised mode ------------------------ *)

\* BOSSIndividual.__init__ followed by BOSSIndividual.fit(X, y)
NewMember(window_size, word_length, norm, labels) ==
    [window_size |-> window_size, word_length |-> word_length, norm |-> norm,
     accuracy |-> Zero, class_vals |-> labels]

\* Python's list[i] for an integer i: TRUE when it raises IndexError
IndexRaises(list, i) == i >= Len(list) \/ i < -Len(list)

\* Python's list[i] when it does not raise
PyIndex(list, i) == IF i >= 0 THEN list[i + 1] ELSE list[Len(list) + i + 1]

\* random.randint(0, series_length / 4): the upper end is a float, which
\* randrange takes only when it has an integral value
RandintRaises(s) == s % 4 # 0

\* win_size of one iteration, clamped to max_window_searches
RandomWinSize(m, inc, k, s) ==
    IF m + inc * k > s \div 4 THEN s \div 4 ELSE m + inc * k

\* lines 148-157 for the three numbers drawn: the place wi in word_lengths
\* (from 1), the multiple k of win_inc, and normalise
RandomisedBody(wi, k, normalise) ==
    LET word_len == word_lengths[wi] IN
    IF RandintRaises(series_length)
    THEN /\ pc' = "raised"
         /\ raised' = "ValueError"
         /\ UNCHANGED classifiers
    ELSE IF IndexRaises(word_lengths, word_len)
         THEN /\ pc' = "raised"
              /\ raised' = "IndexError"
              /\ UNCHANGED classifiers
         ELSE /\ classifiers' = Append(classifiers,
                    NewMember(RandomWinSize(min_window, win_inc, k, series_length),
                              PyIndex(word_lengths, word_len), normalise, y))
              /\ UNCHANGED <<pc, raised>>

\* one iteration of the while loop of randomised mode, the three numbers
\* being any the generator can give
RandomisedIter ==
    /\ pc = "randomised"
    /\ Len(classifiers) < ensemble_size
    /\ \E wi \in 1..Len(word_lengths), normalise \in BOOLEAN,
          k \in 0..(series_length \div 4) :
        RandomisedBody(wi, k, normalise)
    /\ UNCHANGED <<config, num_classes, classes_, class_dictionary, num_classifiers,
                   series_length, y, win_inc, max_acc, min_max_acc, cells, step, call,
                   others>>

(* ------------------------ fit: grid-search mode ----------------------- *)

\* the nearest other training instance of each instance, as boss_distance
\* decides it: any instance but itself, 0 when there is no other
NeighbourChoices(labels) ==
    {nn \in [1..Len(labels) -> 0..Len(labels)] :
        \A g \in 1..Len(labels) :
            /\ nn[g] # g
            /\ (nn[g] = 0) <=> (Len(labels) = 1)}

\* BOSSIndividual.train_predict(g), given the nearest other instance
TrainPredict(labels, nn, g) == IF nn[g] = 0 THEN NoLabel ELSE labels[nn[g]]

\* the count `correct` of one word length's leave-one-out loop
Correct(labels, nn) ==
    Cardinality({g \in 1..Len(labels) : TrainPredict(labels, nn, g) = labels[g]})

\* every value `correct` can have for these training labels
PossibleCorrect(labels) == {Correct(labels, nn) : nn \in NeighbourChoices(labels)}

\* the loop over word_lengths of one grid cell: corrects[n] is the count for
\* word_lengths[n]; the result is (best_acc_for_win_size, best_word_len)
RECURSIVE BestForWinSize(_, _, _, _, _)
BestForWinSize(wls, corrects, num_insts, n, best) ==
    IF n > Len(wls) THEN best
    ELSE LET accuracy == <<corrects[n], num_insts>>
         IN IF GreaterEq(accuracy, best.acc)
            THEN BestForWinSize(wls, corrects, num_insts, n + 1,
                                [acc |-> accuracy, word_len |-> wls[n]])
            ELSE BestForWinSize(wls, corrects, num_insts, n + 1, best)

\* include_in_ensemble with the threshold test made strict
IncludeInEnsemble_Strict(acc, maxAcc, minMaxAcc, size) ==
    IF Greater(acc, Times(maxAcc, threshold))
    THEN IF size >= max_ensemble_size THEN Greater(acc, minMaxAcc) ELSE TRUE
    ELSE FALSE

\* BOSSEnsemble.include_in_ensemble
IncludeInEnsemble(acc, maxAcc, minMaxAcc, size) ==
    IF GreaterEq(acc, Times(maxAcc, threshold))
    THEN IF size >= max_ensemble_size THEN Greater(acc, minMaxAcc) ELSE TRUE
    ELSE FALSE

\* BOSSEnsemble.worst_of_best on a list of Members: (min_acc, min_acc_idx),
\* the index counted from 0
RECURSIVE WorstScan(_, _, _)
WorstScan(cls, c, found) ==
    IF c > Len(cls) THEN found
    ELSE IF Less(cls[c].accuracy, found.min_acc)
         THEN WorstScan(cls, c + 1, [min_acc |-> cls[c].accuracy, min_acc_idx |-> c - 1])
         ELSE WorstScan(cls, c + 1, found)

WorstOfBest(cls) == WorstScan(cls, 1, [min_acc |-> MinusOne, min_acc_idx |-> 0])

\* the loop of lines 196-198: a list iterator walks cls by position while
\* remove() takes the visited Member out, so the Member that slides into the
\* freed position is not visited
RECURSIVE EvictScan(_, _, _)
EvictScan(cls, c, limit) ==
    IF c > Len(cls) THEN cls
    ELSE IF Less(cls[c].accuracy, limit)
         THEN EvictScan(RemoveAt(cls, c), c + 1, limit)
         ELSE EvictScan(cls, c + 1, limit)

\* the threshold scan run after every admission
AfterAppend_Always(cls, member, maxAcc) ==
    EvictScan(Append(cls, member), 1, Times(member.accuracy, threshold))

\* lines 188-198: the list after the candidate is appended and, when it
\* raised max_acc, after the threshold scan
AfterAppend(cls, member, maxAcc) ==
    IF Greater(member.accuracy, maxAcc)
    THEN EvictScan(Append(cls, member), 1, Times(member.accuracy, threshold))
    ELSE Append(cls, member)

\* the size cap tested one Member too late
AfterCap_OffByOne(cls) ==
    IF Len(cls) > max_ensemble_size + 1
    THEN RemoveAt(cls, WorstOfBest(cls).min_acc_idx + 1)
    ELSE cls

\* lines 200-204: the list after the size cap
AfterCap(cls) ==
    IF Len(cls) > max_ensemble_size
    THEN RemoveAt(cls, WorstOfBest(cls).min_acc_idx + 1)
    ELSE cls

\* lines 187-204 for the candidate `member` of a cell, its accuracy acc: the
\* retention test and what follows it, and the step to the next cell
Retain(acc, member) ==
    LET include == IncludeInEnsemble(acc, max_acc, min_max_acc, Len(classifiers))
        scanned == AfterAppend(classifiers, member, max_acc)
        capped == AfterCap(scanned)
    IN /\ cells' = Tail(cells)
       /\ classifiers' = IF include THEN capped ELSE classifiers
       /\ max_acc' = IF include /\ Greater(acc, max_acc) THEN acc ELSE max_acc
       /\ min_max_acc' = IF include THEN WorstOfBest(capped).min_acc ELSE min_max_acc
       /\ step' = [taken |-> TRUE, acc |-> acc, max_acc |-> max_acc,
                   min_max_acc |-> min_max_acc, before |-> classifiers,
                   include |-> include, member |-> member,
                   scanned |-> scanned, capped |-> capped]

\* one iteration of the loop over win_size (lines 164-204)
GridCell ==
    /\ pc = "grid"
    /\ cells # <<>>
    /\ \E corrects \in [1..Len(word_lengths) -> PossibleCorrect(y)] :
        LET cell == Head(cells)
            best == BestForWinSize(word_lengths, corrects, Len(y), 1,
                                   [acc |-> MinusOne, word_len |-> word_lengths[1]])
            member == [NewMember(cell.win_size, best.word_len, cell.normalise, y)
                         EXCEPT !.accuracy = best.acc]
        IN Retain(best.acc, member)
    /\ UNCHANGED <<config, num_classes, classes_, class_dictionary, num_classifiers,
                   series_length, pc, y, win_inc, raised, call, others>>

(* ------------------------------ fit: end ------------------------------ *)

\* both loops of fit are over
LoopsDone ==
    IF randomised_ensemble
    THEN pc = "randomised" /\ Len(classifiers) >= ensemble_size
    ELSE pc = "grid" /\ cells = <<>>

\* the last statement of fit
FitEnd ==
    /\ LoopsDone
    /\ num_classifiers' = Len(classifiers)
    /\ pc' = "fitted"
    /\ UNCHANGED <<config, classifiers, num_classes, classes_, class_dictionary,
                   series_length, y, win_inc, max_acc, min_max_acc, cells, raised, step, call,
                   others>>

(* ----------------------------- prediction ---------------------------- *)

\* BOSSIndividual.predict for one test instance: the label of the training
\* bag boss_distance finds nearest (any of them), -1 without training bags,
\* as the integer array `classes` holds it
MemberPredictions(clf) ==
    IF clf.class_vals = <<>> THEN {IntCast(NoLabel)}
    ELSE {IntCast(clf.class_vals[n]) : n \in 1..Len(clf.class_vals)}

\* preds of every Member for a batch of numTest instances: every outcome of
\* clf.predict(X) over the classifiers
PredictionChoices(cls, numTest) ==
    {preds \in [1..Len(cls) -> [1..numTest -> UNION {MemberPredictions(cls[c]) : c \in 1..Len(cls)}]] :
        \A c \in 1..Len(cls) : \A i \in 1..numTest :
            preds[c][i] \in MemberPredictions(cls[c])}

\* class_dictionary.get(pred) is None
GetsNone(dict, pred) == pred \notin DOMAIN dict

\* sums[i, col] += 1 raises IndexError for a column outside the matrix
VoteRaises(cls, preds, numTest) ==
    \E c \in 1..Len(cls), i \in 1..numTest :
        LET pred == preds[c][i]
        IN IF GetsNone(class_dictionary, pred) THEN FALSE
           ELSE class_dictionary[pred] >= num_classes

\* the Members whose vote for test instance i adds one to column k: those
\* whose prediction the dictionary maps to k, and those it maps to None,
\* because sums[i, None] is the whole row i (None is numpy's newaxis)
VotersFor(cls, preds, i, k) ==
    {c \in 1..Len(cls) :
        LET pred == preds[c][i]
        IN IF GetsNone(class_dictionary, pred) THEN TRUE
           ELSE class_dictionary[pred] = k}

\* the matrix sums after the loop over classifiers
Sums(cls, preds, numTest) ==
    [i \in 1..numTest |->
        [k \in 1..num_classes |-> Cardinality(VotersFor(cls, preds, i, k - 1))]]

\* numpy's x / d on floats: <<x, d>>, with <<0, 0>> for nan and <<1, 0>> for inf
Div(x, d) == IF d # 0 THEN <<x, d>> ELSE IF x = 0 THEN <<0, 0>> ELSE <<1, 0>>

IsNaN(q) == q = <<0, 0>>

\* sums / (np.ones(num_classes) * num_classifiers)
Dists(sums) ==
    [i \in DOMAIN sums |-> [k \in DOMAIN sums[i] |-> Div(sums[i][k], num_classifiers)]]

\* argmax that keeps the last of the largest entries
ArgMax_Last(prob) ==
    IF \E k \in DOMAIN prob : IsNaN(prob[k])
    THEN (CHOOSE k \in DOMAIN prob :
            IsNaN(prob[k]) /\ \A j \in 1..(k - 1) : ~IsNaN(prob[j])) - 1
    ELSE (CHOOSE k \in DOMAIN prob :
            /\ \A j \in DOMAIN prob : prob[j][1] <= prob[k][1]
            /\ \A j \in (k + 1)..Len(prob) : prob[j][1] < prob[k][1]) - 1

\* int(np.argmax(prob)) on a row whose entries share their denominator: the
\* first nan if there is one, else the first largest entry; counted from 0
ArgMax(prob) ==
    IF \E k \in DOMAIN prob : IsNaN(prob[k])
    THEN (CHOOSE k \in DOMAIN prob :
            IsNaN(prob[k]) /\ \A j \in 1..(k - 1) : ~IsNaN(prob[j])) - 1
    ELSE (CHOOSE k \in DOMAIN prob :
            /\ \A j \in DOMAIN prob : prob[j][1] <= prob[k][1]
            /\ \A j \in 1..(k - 1) : prob[j][1] < prob[k][1]) - 1

\* what predict_proba gives back for numTest test instances
ProbaResult(preds, numTest) ==
    IF VoteRaises(classifiers, preds, numTest)
    THEN [raised |-> "IndexError"]
    ELSE [raised |-> "none", dists |-> Dists(Sums(classifiers, preds, numTest)),
          sums |-> Sums(classifiers, preds, numTest)]

\* BOSSEnsemble.predict_proba on a fitted ensemble.  A prediction call reads
\* the fitted object and writes nothing to it, so every call sees what the
\* first call sees: the first call after fit is the one modelled
PredictProba ==
    /\ pc = "fitted"
    /\ call = NoCall
    /\ \E numTest \in 1..MaxTest :
        \E preds \in PredictionChoices(classifiers, numTest) :
            call' = [op |-> "predict_proba", X |-> numTest,
                     members |-> Len(classifiers),
                     proba |-> ProbaResult(preds, numTest)]
    /\ UNCHANGED <<config, fitted, locals, step, others>>

\* BOSSEnsemble.predict on a fitted ensemble
Predict ==
    /\ pc = "fitted"
    /\ call = NoCall
    /\ \E numTest \in 1..MaxTest :
        \E preds \in PredictionChoices(classifiers, numTest) :
            LET proba == ProbaResult(preds, numTest)
            IN call' = [op |-> "predict", X |-> numTest,
                        members |-> Len(classifiers),
                        proba |-> proba,
                        labels |-> IF proba.raised # "none" THEN <<>>
                                   ELSE [i \in 1..numTest |->
                                            classes_[ArgMax(proba.dists[i]) + 1]]]
    /\ UNCHANGED <<config, fitted, locals, step, others>>

\* one call of fit on a new object
Next ==
    \/ FitBegin
    \/ RandomisedIter
    \/ GridCell
    \/ FitEnd

Spec == Init /\ [][Next]_vars

\* fit, then a prediction call on the fitted object.  What a
\* prediction reads of the fitted object is the number of Members, their
\* training labels and the class dictionary, so the configurations are those
\* of Init that vary these: the default threshold, a cap of 0 or 1, a target
\* of 0..MaxTarget, on the training sets of PredictLabelVectors
InitPredict ==
    /\ Init
    /\ threshold = DefaultThreshold
    /\ randomised_ensemble => word_lengths = <<1, 0>>
    /\ ~randomised_ensemble => max_ensemble_size <= 1

FitBeginPredict == FitBeginFrom(PredictLabelVectors)

NextPredict ==
    \/ FitBeginPredict
    \/ RandomisedIter
    \/ GridCell
    \/ FitEnd
    \/ PredictProba
    \/ Predict

SpecPredict == InitPredict /\ [][NextPredict]_vars

(* ------------------- Member: nearest-neighbour search ----------------- *)

\* a bag: the histogram of a series over a dictionary of one word, kept as
\* the count of that word (0 for the empty histogram)
Bags == 0..MaxCount

\* the dissimilarity of two bags
TrueDistance(a, b) == (a - b) * (a - b)

\* sys.float_info.max: above every distance between two bags
FloatMax == MaxCount * MaxCount + 1

\* boss_distance(first, second, best_dist): every value the call can give
\* back; the distance itself when it is below the cutoff, otherwise any
\* value from the cutoff up
BossDistance(a, b, cutoff) ==
    IF TrueDistance(a, b) < cutoff THEN {TrueDistance(a, b)}
    ELSE cutoff..FloatMax

\* BOSSIndividual.fit(X, y): one bag per training series, the labels beside
MemberFit ==
    /\ frame.op = "none"
    /\ \E k \in 1..MaxNumInsts :
        \E bags \in [1..k -> Bags], labels \in [1..k -> MemberLabels] :
            /\ transformed_data' = bags
            /\ class_vals' = labels
    /\ frame' = [op |-> "idle"]
    /\ UNCHANGED <<config, fitted, locals, step, call, gridcell, process>>

\* the local variables of a nearest-neighbour search at the start of its
\* loop; `compared` lists the positions handed to boss_distance so far
StartFrame(op, test_bag, train_num) ==
    [op |-> op, test_bag |-> test_bag, train_num |-> train_num, n |-> 0,
     best_dist |-> FloatMax, nn |-> NoLabel, compared |-> {},
     done |-> FALSE, result |-> NoLabel]

\* the body of both loops from the call of boss_distance on, for the bag at
\* position frame.n and the value dist the call gave back
Compare(dist) ==
    [frame EXCEPT !.n = @ + 1,
                  !.compared = @ \cup {frame.n},
                  !.best_dist = IF dist < frame.best_dist THEN dist ELSE @,
                  !.nn = IF dist < frame.best_dist THEN class_vals[frame.n + 1] ELSE @]

\* BOSSIndividual.predict for one test bag: lines 322-324
MemberPredictBegin ==
    /\ frame.op = "idle"
    /\ \E test_bag \in Bags : frame' = StartFrame("predict", test_bag, -1)
    /\ UNCHANGED <<config, fitted, locals, step, call, gridcell, process,
                   transformed_data, class_vals>>

\* one iteration of the loop over transformed_data (lines 326-331)
MemberPredictIter ==
    /\ frame.op = "predict"
    /\ ~frame.done
    /\ frame.n < Len(transformed_data)
    /\ \E dist \in BossDistance(frame.test_bag, transformed_data[frame.n + 1],
                               frame.best_dist) :
        frame' = Compare(dist)
    /\ UNCHANGED <<config, fitted, locals, step, call, gridcell, process,
                   transformed_data, class_vals>>

\* classes[i] = nn, the store into the integer array that predict returns
MemberPredictEnd ==
    /\ frame.op = "predict"
    /\ ~frame.done
    /\ frame.n = Len(transformed_data)
    /\ frame' = [frame EXCEPT !.done = TRUE, !.result = IntCast(frame.nn)]
    /\ UNCHANGED <<config, fitted, locals, step, call, gridcell, process,
                   transformed_data, class_vals>>

\* BOSSIndividual.train_predict(train_num): lines 338-340
TrainPredictBegin ==
    /\ frame.op = "idle"
    /\ \E train_num \in 0..(Len(transformed_data) - 1) :
        frame' = StartFrame("train_predict", transformed_data[train_num + 1], train_num)
    /\ UNCHANGED <<config, fitted, locals, step, call, gridcell, process,
                   transformed_data, class_vals>>

\* the loop of train_predict without its `continue`
TrainPredictIter_NoSkip ==
    /\ frame.op = "train_predict"
    /\ ~frame.done
    /\ frame.n < Len(transformed_data)
    /\ \E dist \in BossDistance(frame.test_bag, transformed_data[frame.n + 1],
                               frame.best_dist) :
        frame' = Compare(dist)
    /\ UNCHANGED <<config, fitted, locals, step, call, gridcell, process,
                   transformed_data, class_vals>>

\* one iteration of the loop over transformed_data (lines 342-350)
TrainPredictIter ==
    /\ frame.op = "train_predict"
    /\ ~frame.done
    /\ frame.n < Len(transformed_data)
    /\ IF frame.n = frame.train_num
       THEN frame' = [frame EXCEPT !.n = @ + 1]
       ELSE \E dist \in BossDistance(frame.test_bag, transformed_data[frame.n + 1],
                                     frame.best_dist) :
                frame' = Compare(dist)
    /\ UNCHANGED <<config, fitted, locals, step, call, gridcell, process,
                   transformed_data, class_vals>>

\* return nn
TrainPredictEnd ==
    /\ frame.op = "train_predict"
    /\ ~frame.done
    /\ frame.n = Len(transformed_data)
    /\ frame' = [frame EXCEPT !.done = TRUE, !.result = frame.nn]
    /\ UNCHANGED <<config, fitted, locals, step, call, gridcell, process,
                   transformed_data, class_vals>>

\* a Member on its own: the ensemble beside it is a new object with the
\* default threshold that stays as constructed
InitMember ==
    /\ Init
    /\ ~randomised_ensemble
    /\ threshold = DefaultThreshold
    /\ max_ensemble_size = MaxCap
    /\ min_window = DefaultMinWindow

NextMember ==
    \/ MemberFit
    \/ MemberPredictBegin
    \/ MemberPredictIter
    \/ MemberPredictEnd
    \/ TrainPredictBegin
    \/ TrainPredictIter
    \/ TrainPredictEnd

SpecMember == InitMember /\ [][NextMember]_vars

(* ------------------- fit: a grid cell, step by step -------------------- *)

CellLabelVectors == {<<10, 10, 20>>}
CellSeriesLengths == {4, 10}
CellConfigs == {<<<<2, 1>>, 2>>, <<DefaultWordLengths, DefaultMinWindow>>}

\* SFA(word_length, ..., save_words=True) after fit_transform: the words of
\* every window are kept; calls lists the calls made on the object
NewTransform(word_length) ==
    [word_length |-> word_length, words |-> "kept", save_words |-> TRUE,
     calls |-> <<"fit_transform">>]

\* BOSSIndividual.__init__ and the fields fit or shorten_bags fill: a Member
\* that holds the transform object `transform` (its place in transforms) and
\* bags of words of length `bags`
NewBoss(window_size, word_length, norm, labels, transform, bags) ==
    [window_size |-> window_size, word_length |-> word_length, norm |-> norm,
     accuracy |-> Zero, class_vals |-> labels, transform |-> transform,
     bags |-> bags]

\* BOSSIndividual.shorten_bags(word_len): a new Member on the same transform
ShortenBags(boss, word_len) ==
    NewBoss(boss.window_size, word_len, boss.norm, boss.class_vals,
            boss.transform, word_len)

\* BOSSIndividual.clean on the transform object
Clean(transform) ==
    [transform EXCEPT !.words = "None", !.save_words = FALSE,
                      !.calls = Append(@, "clean")]

\* BOSSIndividual.set_word_len on the transform object
SetWordLen(transform, word_len) == [transform EXCEPT !.word_length = word_len]

\* lines 164-169: the Member of the first word length and the cell's locals;
\* tried lists the word lengths evaluated so far with their accuracies
CellOpen ==
    /\ pc = "grid"
    /\ cells # <<>>
    /\ ~cell_locals.open
    /\ LET boss == NewBoss(Head(cells).win_size, word_lengths[1],
                           Head(cells).normalise, y, Len(transforms) + 1,
                           word_lengths[1])
       IN /\ transforms' = Append(transforms, NewTransform(word_lengths[1]))
          /\ cell_locals' = [open |-> TRUE, n |-> 0, boss |-> boss,
                             best_classifier_for_win_size |-> boss,
                             best_acc_for_win_size |-> MinusOne,
                             best_word_len |-> word_lengths[1],
                             tried |-> <<>>]
    /\ UNCHANGED <<config, fitted, locals, step, call, individual, process>>

\* lines 182-185 with > in the place of >=
UpdateBest_Strict(c, boss, accuracy, word_len) ==
    IF Greater(accuracy, c.best_acc_for_win_size)
    THEN [c EXCEPT !.best_acc_for_win_size = accuracy,
                   !.best_classifier_for_win_size = boss,
                   !.best_word_len = word_len]
    ELSE c

\* lines 182-185
UpdateBest(c, boss, accuracy, word_len) ==
    IF GreaterEq(accuracy, c.best_acc_for_win_size)
    THEN [c EXCEPT !.best_acc_for_win_size = accuracy,
                   !.best_classifier_for_win_size = boss,
                   !.best_word_len = word_len]
    ELSE c

\* one iteration of the loop over word_lengths (lines 171-185)
WordLen ==
    /\ cell_locals.open
    /\ cell_locals.n < Len(word_lengths)
    /\ \E correct \in PossibleCorrect(y) :
        LET word_len == word_lengths[cell_locals.n + 1]
            boss == IF cell_locals.n > 0
                    THEN ShortenBags(cell_locals.boss, word_len)
                    ELSE cell_locals.boss
            accuracy == <<correct, Len(y)>>
        IN /\ cell_locals' =
                UpdateBest([cell_locals EXCEPT
                                !.n = @ + 1,
                                !.boss = boss,
                                !.tried = Append(@, [word_len |-> word_len,
                                                     accuracy |-> accuracy])],
                           boss, accuracy, word_len)
           /\ transforms' =
                IF cell_locals.n > 0
                THEN [transforms EXCEPT ![boss.transform].calls =
                                            Append(@, "shorten_bags")]
                ELSE transforms
    /\ UNCHANGED <<config, fitted, locals, step, call, individual, process>>

\* lines 188-189 done whatever include_in_ensemble says
Confirm_Always(include, best, word_len) ==
    [transforms EXCEPT ![best.transform] = SetWordLen(Clean(@), word_len)]

\* lines 188-189: clean and set_word_len on the transform of the candidate,
\* when it is admitted
Confirm(include, best, word_len) ==
    IF include
    THEN [transforms EXCEPT ![best.transform] = SetWordLen(Clean(@), word_len)]
    ELSE transforms

\* lines 187-204 after the last word length of the cell
CellClose ==
    /\ cell_locals.open
    /\ cell_locals.n = Len(word_lengths)
    /\ LET best == cell_locals.best_classifier_for_win_size
           acc == cell_locals.best_acc_for_win_size
           member == [best EXCEPT !.word_length = cell_locals.best_word_len,
                                  !.accuracy = acc]
       IN /\ Retain(acc, member)
          /\ transforms' =
                Confirm(IncludeInEnsemble(acc, max_acc, min_max_acc, Len(classifiers)),
                        best, cell_locals.best_word_len)
    /\ cell_locals' = [cell_locals EXCEPT !.open = FALSE]
    /\ UNCHANGED <<config, num_classes, classes_, class_dictionary, num_classifiers,
                   series_length, pc, y, win_inc, raised, call, individual, process>>

\* a grid-search fit with the default threshold, on the default word lengths
\* and minimum window or on two short word lengths and a window of 2
InitCell ==
    /\ randomised_ensemble = FALSE
    /\ ensemble_size = DefaultEnsembleSize
    /\ random_state = 0
    /\ rng = Seeded(random_state)
    /\ threshold = DefaultThreshold
    /\ max_ensemble_size \in 1..MaxCap
    /\ \E c \in CellConfigs : word_lengths = c[1] /\ min_window = c[2]
    /\ norm_options = DefaultNormOptions
    /\ NewObject

FitBeginCell == FitBeginOn(CellLabelVectors, CellSeriesLengths)

NextCell ==
    \/ FitBeginCell
    \/ CellOpen
    \/ WordLen
    \/ CellClose
    \/ FitEnd

SpecCell == InitCell /\ [][NextCell]_vars

(* ------------------------ fit on a fitted object ----------------------- *)

RefitVectors == {<<10, 20>>, <<10, 10, 25>>}
RefitSeriesLengths == {4}

\* what a fit that has ended left: the training labels, how it ended, and
\* the Members with their configurations
Outcome ==
    [y |-> y, series_length |-> series_length, pc |-> pc, raised |-> raised,
     num_classifiers |-> num_classifiers,
     members |-> [c \in 1..Len(classifiers) |->
                    [window_size |-> classifiers[c].window_size,
                     word_length |-> classifiers[c].word_length,
                     norm |-> classifiers[c].norm]]]

\* a second call of fit on the same object: lines 131-161 run on what the
\* first call left (classifiers, class_dictionary and num_classifiers are
\* set by __init__ only)
FitAgain ==
    /\ pc = "fitted"
    /\ runs = <<>>
    /\ \E labels \in RefitVectors, s \in RefitSeriesLengths : FitEntry(labels, s)
    /\ runs' = Append(runs, Outcome)
    /\ UNCHANGED <<config, classifiers, num_classifiers, raised, step, call,
                   individual, gridcell, stream>>

\* an object with the default threshold and short word lengths, in either mode
InitRefit ==
    /\ Init
    /\ threshold = DefaultThreshold
    /\ min_window = 2
    /\ randomised_ensemble => word_lengths = <<1, 0>>
    /\ ~randomised_ensemble => max_ensemble_size >= 1

FitBeginRefit == FitBeginOn(RefitVectors, RefitSeriesLengths)

NextRefit ==
    \/ FitBeginRefit
    \/ RandomisedIter
    \/ GridCell
    \/ FitEnd
    \/ FitAgain

SpecRefit == InitRefit /\ [][NextRefit]_vars

(* --------------------- randomised fit, seeded draws -------------------- *)

\* the generator followed draw by draw.  Its output is a function of the
\* seed and the position alone; which function is left open: a bit of the
\* stream is chosen when it is first drawn and is the same ever after.  The
\* ranges drawn from here have two values each (two word lengths,
\* series_length / 4 = 1, random() > 0.5), so one draw is one bit.

Seeds == 0..MaxSeed
SeededVectors == {<<10, 20>>}
SeededSeriesLengths == {2, 4}

\* random.seed(random_state): random_state = None seeds from the system
SeedFrom(a) == IF a = NoSeed THEN {Seeded(e) : e \in Seeds} ELSE {Seeded(a)}

\* bit b is what the generator gives at position pos after its last seed
Drawn(b, pos) ==
    IF <<rng.seed, pos>> \in DOMAIN stream THEN b = stream[<<rng.seed, pos>>]
    ELSE b \in {0, 1}

\* the stream with the bits of the positions pos .. pos + Len(bits) - 1 known
Known(bits, pos) ==
    [p \in DOMAIN stream \cup {<<rng.seed, pos + i - 1>> : i \in 1..Len(bits)} |->
        IF p \in DOMAIN stream THEN stream[p] ELSE bits[p[2] - pos + 1]]

\* one iteration of the while loop of randomised mode, the three numbers
\* drawn from the generator in the order of lines 148, 149, 152; the second
\* randint raises before it draws when series_length / 4 is not integral
RandomisedDraw ==
    /\ pc = "randomised"
    /\ Len(classifiers) < ensemble_size
    /\ \E b1 \in {0, 1}, b2 \in {0, 1}, b3 \in {0, 1} :
        /\ Drawn(b1, rng.pos)
        /\ Drawn(b2, rng.pos + 1)
        /\ Drawn(b3, rng.pos + 2)
        /\ RandomisedBody(b1 + 1, b2, b3 = 1)
        /\ IF RandintRaises(series_length)
           THEN /\ b2 = 0 /\ b3 = 0
                /\ stream' = Known(<<b1>>, rng.pos)
                /\ rng' = [rng EXCEPT !.pos = @ + 1]
           ELSE /\ stream' = Known(<<b1, b2, b3>>, rng.pos)
                /\ rng' = [rng EXCEPT !.pos = @ + 3]
    /\ UNCHANGED <<config, num_classes, classes_, class_dictionary, num_classifiers,
                   series_length, y, win_inc, max_acc, min_max_acc, cells, step, call,
                   individual, gridcell, runs>>

\* code elsewhere in the process draws a number from the random module
\* before a fit starts
OtherDraw ==
    /\ pc = "constructed"
    /\ rng.pos < MaxOtherDraws
    /\ rng' = [rng EXCEPT !.pos = @ + 1]
    /\ UNCHANGED <<config, fitted, locals, step, call, individual, gridcell,
                   runs, stream>>

\* the first run has ended: a second object is constructed with the same
\* parameters (BOSSEnsemble.__init__, which seeds the generator)
SecondObject ==
    /\ pc \in {"fitted", "raised"}
    /\ runs = <<>>
    /\ runs' = <<Outcome>>
    /\ rng' \in SeedFrom(random_state)
    /\ classifiers' = <<>>
    /\ num_classes' = 0
    /\ classes_' = <<>>
    /\ class_dictionary' = <<>>
    /\ num_classifiers' = 0
    /\ series_length' = 0
    /\ pc' = "constructed"
    /\ raised' = "none"
    /\ UNCHANGED <<config, y, win_inc, max_acc, min_max_acc, cells, step, call,
                   individual, gridcell, stream>>

\* fit on the training set of the first run
FitBeginSeeded ==
    /\ pc = "constructed"
    /\ \E labels \in SeededVectors, s \in SeededSeriesLengths :
        /\ runs # <<>> => (labels = runs[1].y /\ s = runs[1].series_length)
        /\ FitEntry(labels, s)
    /\ UNCHANGED <<config, classifiers, num_classifiers, raised, step, call,
                   individual, gridcell, runs, stream>>

\* a randomised ensemble over two word lengths, with or without a seed
InitSeeded ==
    /\ randomised_ensemble = TRUE
    /\ ensemble_size \in 0..MaxTarget
    /\ random_state \in {NoSeed} \cup Seeds
    /\ rng \in SeedFrom(random_state)
    /\ threshold = DefaultThreshold
    /\ max_ensemble_size = DefaultMaxEnsembleSize
    /\ word_lengths = <<1, 0>>
    /\ norm_options = DefaultNormOptions
    /\ min_window = 2
    /\ NewObject

NextSeeded ==
    \/ OtherDraw
    \/ FitBeginSeeded
    \/ RandomisedDraw
    \/ FitEnd
    \/ SecondObject

SpecSeeded == InitSeeded /\ [][NextSeeded]_vars

(* ------------------------------ claims -------------------------------- *)

GridFitted == pc = "fitted" /\ ~randomised_ensemble

\* the best cached accuracy among the Members of a non-empty list
BestRetained(cls) ==
    CHOOSE a \in {cls[i].accuracy : i \in 1..Len(cls)} :
        \A i \in 1..Len(cls) : GreaterEq(a, cls[i].accuracy)

\* the lowest cached accuracy among the Members of a non-empty list
WorstRetained(cls) ==
    CHOOSE a \in {cls[i].accuracy : i \in 1..Len(cls)} :
        \A i \in 1..Len(cls) : GreaterEq(cls[i].accuracy, a)

WithinThreshold(cls) ==
    \A i \in 1..Len(cls) :
        GreaterEq(cls[i].accuracy, Times(BestRetained(cls), threshold))

\* C1: after a grid-search fit every retained Member's cached accuracy is at
\* least (the best cached accuracy among the retained Members) * threshold.
C1_RetentionAfterFit == GridFitted => WithinThreshold(classifiers)

\* C2: in grid-search mode the number of retained Members never exceeds
\* max_ensemble_size, after fit and at the end of every grid cell.
C2_SizeWithinCap == ~randomised_ensemble => Len(classifiers) <= max_ensemble_size

\* C2 witness: a fit has ended with the ensemble exactly at its cap, after a
\* cell in which the cap took a Member out.
C2_Witness ==
    /\ GridFitted
    /\ max_ensemble_size > 0
    /\ Len(classifiers) = max_ensemble_size
    /\ step.taken /\ step.include
    /\ Len(step.scanned) > max_ensemble_size

Same(a, b) == ~Less(a, b) /\ ~Less(b, a)

\* the cap took a Member out in the last retention step
CapEvicted == step.taken /\ step.include /\ Len(step.scanned) > max_ensemble_size

\* C3: when the cap takes a Member out, that Member has the lowest cached
\* accuracy of the list it is taken from, and is the earliest such Member.
C3_CapEvictsWorst ==
    CapEvicted =>
        \E j \in 1..Len(step.scanned) :
            /\ step.capped = RemoveAt(step.scanned, j)
            /\ Same(step.scanned[j].accuracy, WorstRetained(step.scanned))
            /\ \A i \in 1..(j - 1) :
                   Greater(step.scanned[i].accuracy, step.scanned[j].accuracy)

\* the minimum cached accuracy among the retained Members, -1 for none
MinOf(cls) == IF cls = <<>> THEN MinusOne ELSE WorstRetained(cls)

\* the best cached accuracy among the retained Members, -1 for none
MaxOf(cls) == IF cls = <<>> THEN MinusOne ELSE BestRetained(cls)

\* C4: a candidate is retained iff acc >= max_acc * threshold and (the
\* ensemble is below its cap or acc > the minimum cached accuracy among the
\* retained Members); min_max_acc is that minimum, -1 only for an empty ensemble.
C4_RetainIff ==
    step.taken =>
        /\ Same(step.min_max_acc, MinOf(step.before))
        /\ step.include <=>
              /\ GreaterEq(step.acc, Times(step.max_acc, threshold))
              /\ \/ Len(step.before) < max_ensemble_size
                 \/ Greater(step.acc, MinOf(step.before))

\* C5: at every retention decision max_acc is the best cached accuracy among
\* the Members retained at that moment, -1 for an empty ensemble (stated for
\* the configurations that can retain a Member, max_ensemble_size >= 1).
C5_MaxAccIsBestRetained ==
    (step.taken /\ max_ensemble_size >= 1) =>
        Same(step.max_acc, MaxOf(step.before))

RECURSIVE SumOf(_)
SumOf(row) == IF row = <<>> THEN 0 ELSE Head(row) + SumOf(Tail(row))

Returned == call.op # "none" /\ call.proba.raised = "none"

\* a row of fractions over one denominator adds up to 1
SumsToOne(prob) ==
    /\ \A k \in DOMAIN prob : prob[k][2] # 0
    /\ \A k \in DOMAIN prob : prob[k][2] = prob[1][2]
    /\ SumOf([k \in DOMAIN prob |-> prob[k][1]]) = prob[1][2]

\* C6: predict_proba on a fitted ensemble gives one row per test instance,
\* one column per distinct training label; every row's votes add up to the
\* number of retained Members and the row adds up to 1 (stated for the
\* ensembles that retain a Member; the one without Members is C7's case).
C6_RowsSumToOne ==
    (Returned /\ call.members >= 1) =>
        /\ Len(call.proba.dists) = call.X
        /\ \A i \in 1..call.X :
            /\ Len(call.proba.dists[i]) = Cardinality(Range(y))
            /\ SumOf(call.proba.sums[i]) = call.members
            /\ call.members = num_classifiers
            /\ SumsToOne(call.proba.dists[i])

\* C7: predict or predict_proba on an ensemble without Members raises.
C7_EmptyEnsembleRaises ==
    (call.op # "none" /\ call.members = 0) => call.proba.raised # "none"

\* C8: fit on labels with fewer than 2 distinct classes builds no Member and
\* does not end as a successful fit.
C8_FewClassesRejected ==
    (y # <<>> /\ Cardinality(Range(y)) < 2) =>
        (pc # "fitted" /\ classifiers = <<>>)

\* C9: randomised fit ends without error and with exactly ensemble_size
\* Members whose word length is one of word_lengths, for every configured
\* word-length list (stated where the draw of the window length succeeds).
C9_RandomisedFitCompletes ==
    (randomised_ensemble /\ pc # "constructed" /\ ~RandintRaises(series_length)) =>
        /\ pc # "raised"
        /\ pc = "fitted" => Len(classifiers) = ensemble_size
        /\ \A c \in 1..Len(classifiers) :
               classifiers[c].word_length \in Range(word_lengths)

\* C10: a grid-search fit over a non-empty window grid with
\* max_ensemble_size >= 1 ends with between 1 and max_ensemble_size Members;
\* the ensemble is non-empty from the first cell on.
C10_BetweenOneAndCap ==
    (~randomised_ensemble /\ max_ensemble_size >= 1) =>
        /\ step.taken =>
              (1 <= Len(classifiers) /\ Len(classifiers) <= max_ensemble_size)
        /\ (pc = "fitted" /\ min_window <= series_length) =>
              (1 <= Len(classifiers) /\ Len(classifiers) <= max_ensemble_size)

\* C10 witness: a fit has ended with Members retained after a cell whose
\* candidate raised max_acc and pushed earlier Members below the threshold.
C10_Witness ==
    /\ GridFitted
    /\ max_ensemble_size >= 1
    /\ Len(classifiers) >= 1
    /\ step.taken /\ step.include
    /\ step.before # <<>>
    /\ Len(step.scanned) <= Len(step.before)

\* the lowest position (from 0) among the candidates whose bag is at the
\* least distance from test_bag
Nearest(test_bag, candidates) ==
    CHOOSE j \in candidates :
        \A k \in candidates :
            \/ TrueDistance(test_bag, transformed_data[j + 1])
                 < TrueDistance(test_bag, transformed_data[k + 1])
            \/ /\ TrueDistance(test_bag, transformed_data[j + 1])
                    = TrueDistance(test_bag, transformed_data[k + 1])
               /\ j <= k

\* the label of that bag, -1 when there is no candidate
NearestLabel(test_bag, candidates) ==
    IF candidates = {} THEN NoLabel
    ELSE class_vals[Nearest(test_bag, candidates) + 1]

AllBags == 0..(Len(transformed_data) - 1)

\* C11: BOSSIndividual.predict returns the label of the training bag at the
\* least distance from the test bag, the lowest position among equally near
\* bags, whatever the distance calls give back from the cutoff up.
C11_PredictNearestLabel ==
    (frame.op = "predict" /\ frame.done) =>
        frame.result = NearestLabel(frame.test_bag, AllBags)

\* the search of predict and of train_predict finds the nearest candidate:
\* nn, before it is returned, is the label of the nearest bag
SearchFindsNearest ==
    (frame.op \in {"predict", "train_predict"} /\ frame.done) =>
        frame.nn = NearestLabel(frame.test_bag, AllBags \ {frame.train_num})

\* C12: BOSSIndividual.train_predict(i) never hands bag i to boss_distance,
\* and returns the label of the nearest bag among those at a position other
\* than i, the lowest position among equally near ones (-1 without any).
C12_TrainPredictExcludesSelf ==
    frame.op = "train_predict" =>
        /\ frame.train_num \notin frame.compared
        /\ frame.done =>
              /\ frame.compared = AllBags \ {frame.train_num}
              /\ frame.result = NearestLabel(frame.test_bag, AllBags \ {frame.train_num})

\* C12 witness: train_predict(0) has returned on a Member of three bags where
\* the two other bags are equally near and carry different labels, and the
\* label returned is that of the first of the two, not the label of bag 0.
C12_Witness ==
    /\ frame.op = "train_predict" /\ frame.done
    /\ frame.train_num = 0
    /\ Len(transformed_data) = 3
    /\ TrueDistance(frame.test_bag, transformed_data[2])
         = TrueDistance(frame.test_bag, transformed_data[3])
    /\ class_vals[2] # class_vals[3]
    /\ class_vals[1] # class_vals[2]
    /\ frame.result = class_vals[2]


\* a grid cell has just been closed: tried holds all its word lengths
CellClosed == step.taken /\ ~cell_locals.open /\ cell_locals.tried # <<>>

\* the place in tried of the last word length whose accuracy no other exceeds
Winner(tried) ==
    CHOOSE w \in 1..Len(tried) :
        /\ \A t \in 1..Len(tried) : GreaterEq(tried[w].accuracy, tried[t].accuracy)
        /\ \A t \in (w + 1)..Len(tried) : Greater(tried[w].accuracy, tried[t].accuracy)

\* C13: the candidate a grid cell offers to the retention test is the Member
\* of the word length with the highest leave-one-out accuracy of the cell,
\* the last evaluated one among equals; its accuracy, its word_length and
\* its bags are those of that word length.
C13_CandidateIsBestWordLength ==
    CellClosed =>
        LET won == cell_locals.tried[Winner(cell_locals.tried)]
        IN /\ Len(cell_locals.tried) = Len(word_lengths)
           /\ \A t \in 1..Len(word_lengths) :
                  cell_locals.tried[t].word_len = word_lengths[t]
           /\ step.acc = won.accuracy
           /\ step.member.accuracy = won.accuracy
           /\ step.member.word_length = won.word_len
           /\ step.member.bags = won.word_len
           /\ step.include =>
                  transforms[step.member.transform].word_length = won.word_len

\* C13 witness: a cell over the five default word lengths has been closed and
\* its candidate admitted, where the first and the last word length share the
\* highest accuracy and one in between is worse.
C13_Witness ==
    /\ CellClosed
    /\ step.include
    /\ Len(cell_locals.tried) = 5
    /\ cell_locals.tried[1].accuracy = cell_locals.tried[5].accuracy
    /\ Greater(cell_locals.tried[1].accuracy, cell_locals.tried[3].accuracy)
    /\ Winner(cell_locals.tried) = 5
    /\ step.member.word_length = word_lengths[5]

\* the Members fit has constructed and still holds: the one of the open cell,
\* the best of the open cell, and the retained ones
Constructed ==
    (IF cell_locals.open
     THEN {cell_locals.boss, cell_locals.best_classifier_for_win_size}
     ELSE {})
    \cup Range(classifiers)

\* C15: every Member fit constructs has 0 < window_size <= series_length and
\* word_length <= window_size (a configuration that breaks this raises at
\* the construction and leaves no Member).
C15_MemberConfigValid ==
    \A m \in Constructed :
        /\ 0 < m.window_size
        /\ m.window_size <= series_length
        /\ m.word_length <= m.window_size

\* the number of calls named `name` among the first k calls
RECURSIVE CountCalls(_, _, _)
CountCalls(calls, name, k) ==
    IF k = 0 THEN 0
    ELSE CountCalls(calls, name, k - 1) + (IF calls[k] = name THEN 1 ELSE 0)

Cleaned(i) == \E k \in 1..Len(transforms[i].calls) : transforms[i].calls[k] = "clean"

\* C18: in grid-search mode clean() is called only on the transform of a
\* candidate that has just passed include_in_ensemble, after all the
\* shorten_bags calls of its cell, and no shorten_bags follows a clean.
C18_CleanAfterShorten ==
    /\ \A i \in 1..Len(transforms) :
        \A k \in 1..Len(transforms[i].calls) :
            transforms[i].calls[k] = "clean" =>
                /\ CountCalls(transforms[i].calls, "shorten_bags", k)
                     = Len(word_lengths) - 1
                /\ \A j \in (k + 1)..Len(transforms[i].calls) :
                       transforms[i].calls[j] # "shorten_bags"
    /\ cell_locals.open => ~Cleaned(Len(transforms))
    /\ CellClosed =>
          (Cleaned(Len(transforms)) <=>
              (step.include /\ step.member.transform = Len(transforms)))

\* C18 witness: two cells over the five default word lengths are closed, the
\* candidate of the first admitted and its transform cleaned after its four
\* shorten_bags calls, the candidate of the second turned down and its
\* transform not cleaned.
C18_Witness ==
    /\ CellClosed
    /\ Len(transforms) = 2
    /\ transforms[1].calls = <<"fit_transform", "shorten_bags", "shorten_bags",
                               "shorten_bags", "shorten_bags", "clean">>
    /\ ~step.include
    /\ ~Cleaned(2)


\* p > q on the floats of a probability row; nothing is above or below nan
ProbGreater(p, q) ==
    /\ ~IsNaN(p)
    /\ ~IsNaN(q)
    /\ \/ p[2] = 0 /\ q[2] # 0
       \/ p[2] # 0 /\ q[2] # 0 /\ p[1] * q[2] > q[1] * p[2]

\* no entry of the row is above entry k
Maximal(prob, k) == \A j \in DOMAIN prob : ~ProbGreater(prob[j], prob[k])

\* C14: BOSSEnsemble.predict gives, for each instance, the label of the
\* class whose predict_proba entry is maximal, the first such class in the
\* order of classes_, which is the order class_dictionary gives the columns.
C14_PredictIsFirstArgMax ==
    (call.op = "predict" /\ Returned) =>
        /\ Len(call.labels) = call.X
        /\ \A k \in 1..Len(classes_) : class_dictionary[classes_[k]] = k - 1
        /\ \A i \in 1..call.X :
            \E k \in 1..Len(classes_) :
                /\ call.labels[i] = classes_[k]
                /\ Maximal(call.proba.dists[i], k)
                /\ \A j \in 1..(k - 1) : ~Maximal(call.proba.dists[i], j)

\* C14 witness: predict has returned on an ensemble of two Members that voted
\* for different classes of a two-class training set: both entries are 1/2
\* and the label is the first class.
C14_Witness ==
    /\ call.op = "predict" /\ Returned
    /\ call.members = 2
    /\ Len(classes_) = 2
    /\ call.proba.sums[1] = <<1, 1>>
    /\ call.proba.dists[1] = <<<<1, 2>>, <<1, 2>>>>
    /\ call.labels[1] = classes_[1]


\* a is b with some of its Members taken out, the others in b's order
RECURSIVE SubSeqOf(_, _)
SubSeqOf(a, b) ==
    IF a = <<>> THEN TRUE
    ELSE IF b = <<>> THEN FALSE
    ELSE IF Head(a) = Head(b) THEN SubSeqOf(Tail(a), Tail(b))
    ELSE SubSeqOf(a, Tail(b))

\* C17: a candidate that fails include_in_ensemble leaves classifiers,
\* max_acc and min_max_acc as they were; Members are taken out by the
\* threshold only in a step whose admitted candidate is strictly above the
\* previous max_acc; the size cap works on the list the threshold scan
\* left, in the same step, and takes out one Member only when that list is
\* longer than max_ensemble_size.
C17_RetentionOrder ==
    step.taken =>
        /\ ~step.include =>
              /\ classifiers = step.before
              /\ max_acc = step.max_acc
              /\ min_max_acc = step.min_max_acc
        /\ step.include =>
              /\ SubSeqOf(step.scanned, Append(step.before, step.member))
              /\ ~Greater(step.acc, step.max_acc) =>
                    (step.scanned = Append(step.before, step.member)
                     /\ max_acc = step.max_acc)
              /\ Greater(step.acc, step.max_acc) => max_acc = step.acc
              /\ classifiers = step.capped
              /\ IF Len(step.scanned) > max_ensemble_size
                 THEN \E j \in 1..Len(step.scanned) :
                          step.capped = RemoveAt(step.scanned, j)
                 ELSE step.capped = step.scanned

\* C17 witness: in the middle of a grid search a candidate strictly above the
\* previous max_acc has been admitted to a non-empty ensemble and the
\* threshold scan has taken an earlier Member out.
C17_Witness ==
    /\ pc = "grid"
    /\ step.taken /\ step.include
    /\ step.before # <<>>
    /\ Greater(step.acc, step.max_acc)
    /\ Len(step.scanned) < Len(step.before) + 1
    /\ classifiers = step.scanned


\* C19: after any sequence of fit calls on one object the ensemble is that
\* of the latest call: every retained Member holds the latest training
\* labels, num_classifiers is their number, class_dictionary has exactly the
\* classes of the latest training set, and a randomised fit that ended
\* without error holds ensemble_size Members (stated for the fits that
\* retain a Member).
C19_RefitReflectsLatestCall ==
    (pc = "fitted" /\ classifiers # <<>>) =>
        /\ \A c \in 1..Len(classifiers) : classifiers[c].class_vals = y
        /\ num_classifiers = Len(classifiers)
        /\ DOMAIN class_dictionary = Range(y)
        /\ randomised_ensemble => Len(classifiers) = ensemble_size


\* a is the beginning of b
IsPrefix(a, b) == Len(a) <= Len(b) /\ \A i \in 1..Len(a) : a[i] = b[i]

\* C16: two randomised fits on new objects with the same random_state, the
\* same parameters and the same training set build the same sequence of
\* Member configurations (window_size, word_length, norm) and end the same
\* way; each starts from an empty ensemble.
C16_SeededFitDeterministic ==
    /\ pc = "constructed" => classifiers = <<>>
    /\ runs # <<>> =>
          /\ IsPrefix(Outcome.members, runs[1].members)
          /\ pc \in {"fitted", "raised"} =>
                /\ Outcome.members = runs[1].members
                /\ pc = runs[1].pc
                /\ raised = runs[1].raised

\* C16 witness: with random_state = 1 both runs have ended with the same
\* two Members, which differ from each other, on six bits drawn after the
\* seed of fit.
C16_Witness ==
    /\ runs # <<>>
    /\ pc = "fitted"
    /\ random_state = 1
    /\ Len(classifiers) = 2
    /\ Outcome.members = runs[1].members
    /\ Outcome.members[1] # Outcome.members[2]
    /\ rng = [seed |-> SelfSeed, pos |-> 6]
    /\ Cardinality(DOMAIN stream) = 6

====
